---- MODULE Spec2Model ----
(***************************************************************************)
(* A model of ftpedia_pdf_article_to_latex.py: the figure grouper          *)
(* (generate_array_figures), the partition of the body lines into pages,   *)
(* the column split loop, the blank-line collapse, the paragraph reflow    *)
(* loop and the front-matter extraction                                    *)
(* (get_category_from_article, get_title_from_pdf,                         *)
(* get_author_from_article and the prints that follow them).               *)
(*                                                                         *)
(* Text is a sequence of one-character strings.  A line is its content     *)
(* without the line terminator.  The only whitespace character of the      *)
(* model is the space.                                                     *)
(***************************************************************************)
EXTENDS Integers, Sequences, FiniteSets, TLC

VARIABLES
    pc,               \* position of the script
    \* generate_array_figures
    pages,            \* list(extract_pages('temp.pdf')): a sequence of pages of elements
    array_picture,    \* first pass: [page_number, pic_number or -1]
    array_figure,     \* second pass: [page_number, pic_numbers]
    \* column split loop
    bodytextpages,    \* one sequence of lines per page
    cptr,             \* pages entered by the column split loop
    lineno,           \* lines of the current page already split
    leftcolumn,
    rightcolumn,
    newbody,          \* the lines written to temp2.txt
    \* blank-line collapse and paragraph reflow
    lines,            \* the lines read from temp2.txt
    cleanpos,         \* lines already seen by the collapse loop
    prevlineblank,
    cleanedlines,     \* the lines the collapse loop keeps
    temp3,            \* the lines of temp3.txt
    reflowpos,        \* lines already seen by the reflow loop
    paragraph,        \* the accumulator of the reflow loop
    temp4,            \* the paragraphs appended to temp4.txt
    \* front matter
    article_content,  \* the fragments of extract_article_content
    page1,            \* the elements of the first page of temp.pdf
    category,
    title,
    author,
    \* partition of the body lines into pages
    bodytext,         \* the lines of temp1.txt from startbody on
    first_page,
    last_page

figVars    == <<pages, array_picture, array_figure>>
splitVars  == <<bodytextpages, cptr, lineno, leftcolumn, rightcolumn, newbody>>
reflowVars == <<lines, cleanpos, prevlineblank, cleanedlines, temp3, reflowpos,
               paragraph, temp4>>
frontVars  == <<article_content, page1, category, title, author>>
pageVars   == <<bodytext, first_page, last_page>>
vars       == <<pc, figVars, splitVars, reflowVars, frontVars, pageVars>>

-----------------------------------------------------------------------------
(* Python's str operations on sequences of characters.                     *)

Sp1 == <<" ">>
Sp3 == <<" ", " ", " ">>
Sp4 == <<" ", " ", " ", " ">>

Spaces(n) == [i \in 1..n |-> " "]

Abs(x) == IF x < 0 THEN -x ELSE x

RECURSIVE lstrip(_)
lstrip(s) == IF s # <<>> /\ Head(s) = " " THEN lstrip(Tail(s)) ELSE s

RECURSIVE rstrip(_)
rstrip(s) == IF s # <<>> /\ s[Len(s)] = " " THEN rstrip(SubSeq(s, 1, Len(s) - 1)) ELSE s

strip(s) == rstrip(lstrip(s))

\* sub occurs in s at the 1-based position i
MatchAt(s, sub, i) ==
    /\ i + Len(sub) - 1 <= Len(s)
    /\ SubSeq(s, i, i + Len(sub) - 1) = sub

\* the 1-based position of the first occurrence of sub at or after i, 0 if none
RECURSIVE FindFrom(_, _, _)
FindFrom(s, sub, i) ==
    IF i + Len(sub) - 1 > Len(s) THEN 0
    ELSE IF MatchAt(s, sub, i) THEN i
    ELSE FindFrom(s, sub, i + 1)

\* str.find: the 0-based index of the first occurrence, -1 if none
find(s, sub) == FindFrom(s, sub, 1) - 1

\* str.count: the number of non-overlapping occurrences, left to right
RECURSIVE CountFrom(_, _, _)
CountFrom(s, sub, i) ==
    IF i + Len(sub) - 1 > Len(s) THEN 0
    ELSE IF MatchAt(s, sub, i) THEN 1 + CountFrom(s, sub, i + Len(sub))
    ELSE CountFrom(s, sub, i + 1)

count(s, sub) == CountFrom(s, sub, 1)

\* str.replace(old, new, n): the first n non-overlapping occurrences, all of
\* them when n is negative
RECURSIVE ReplaceFrom(_, _, _, _, _)
ReplaceFrom(s, old, new, n, i) ==
    IF n = 0 \/ i + Len(old) - 1 > Len(s) THEN SubSeq(s, i, Len(s))
    ELSE IF MatchAt(s, old, i) THEN new \o ReplaceFrom(s, old, new, n - 1, i + Len(old))
    ELSE <<s[i]>> \o ReplaceFrom(s, old, new, n, i + 1)

replace(s, old, new, n) == ReplaceFrom(s, old, new, n, 1)

\* str.split(sep, 1) of a string that contains sep: <<before, after>>
split1(s, sep) ==
    LET p == FindFrom(s, sep, 1)
    IN  <<SubSeq(s, 1, p - 1), SubSeq(s, p + Len(sep), Len(s))>>

\* sanitize_spaces, first loop
RECURSIVE ShrinkRuns(_)
ShrinkRuns(s) ==
    IF find(s, Sp4) # -1 THEN ShrinkRuns(replace(s, Sp4, Sp3, -1)) ELSE s

\* sanitize_spaces, second loop
RECURSIVE CollapseRuns(_)
CollapseRuns(s) ==
    IF count(s, Sp3) > 1
    THEN CollapseRuns(replace(s, Sp3, Sp1, count(s, Sp3) - 1))
    ELSE s

sanitize_spaces(s) == CollapseRuns(ShrinkRuns(s))

\* the non-empty sequences over S of length at most n, and the empty one
SeqsUpTo(S, n) == UNION {[1..k -> S] : k \in 0..n}

-----------------------------------------------------------------------------
(* Values the variables of the other parts keep while one part runs.       *)

IdleFig    == /\ pages = <<>> /\ array_picture = <<>> /\ array_figure = <<>>
IdleSplit  == /\ bodytextpages = <<>> /\ cptr = 0 /\ lineno = 0
              /\ leftcolumn = <<>> /\ rightcolumn = <<>> /\ newbody = <<>>
IdleReflow == /\ lines = <<>> /\ cleanpos = 0 /\ prevlineblank = FALSE
              /\ cleanedlines = <<>> /\ temp3 = <<>> /\ reflowpos = 0
              /\ paragraph = <<>> /\ temp4 = <<>>
IdleFront  == /\ article_content = <<>> /\ page1 = <<>> /\ category = <<>>
              /\ title = <<>> /\ author = <<>>
IdlePages  == /\ bodytext = <<>> /\ first_page = 1 /\ last_page = 1

-----------------------------------------------------------------------------
(* generate_array_figures.  An element of a page is an LTFigure with its   *)
(* vertical extent (y0 the lower edge, y1 the upper edge) or anything      *)
(* else.  Coordinates are counted in half layout units, so that 20.5 is    *)
(* 41.                                                                     *)

MaxPages == 2
MaxObs   == 4

HalfUnits(n) == 2 * n

TextElement  == [fig |-> FALSE, y0 |-> 0, y1 |-> 0]
Figure(a, b) == [fig |-> TRUE, y0 |-> a, y1 |-> b]

\* (y0, y1) of the image fragments the pages are drawn from
FigureExtents == {<<HalfUnits(10), HalfUnits(20)>>, <<41, HalfUnits(25)>>,
                  <<HalfUnits(5), HalfUnits(9)>>}

Elements == {TextElement} \cup {Figure(e[1], e[2]) : e \in FigureExtents}

\* the sequences of at most n pages holding at most budget elements of S together
RECURSIVE PageSeqs(_, _, _)
PageSeqs(S, n, budget) ==
    IF n = 0 THEN {<<>>}
    ELSE {<<>>} \cup
         UNION {{<<p>> \o rest : rest \in PageSeqs(S, n - 1, budget - Len(p))}
                  : p \in SeqsUpTo(S, budget)}

\* the body of the first pass for one element
ScanElement(st, page_number, element) ==
    IF element.fig
    THEN LET pos_y0_cur == element.y0
             pos_y1_cur == element.y1
             brk == /\ Abs(pos_y1_cur - st.pos_y0_prev) >= HalfUnits(2)
                    /\ st.prev_was_a_pic
         IN  [array_picture |->
                  st.array_picture
                  \o (IF brk THEN <<<<page_number, -1>>>> ELSE <<>>)
                  \o <<<<page_number, st.pic_number>>>>,
              pic_number     |-> st.pic_number + 1,
              pos_y0_prev    |-> pos_y0_cur,
              prev_was_a_pic |-> TRUE]
    ELSE [st EXCEPT !.array_picture = @ \o <<<<page_number, -1>>>>]

RECURSIVE ScanPage(_, _, _)
ScanPage(st, page_number, elems) ==
    IF elems = <<>> THEN st
    ELSE ScanPage(ScanElement(st, page_number, Head(elems)), page_number, Tail(elems))

RECURSIVE ScanPages(_, _, _)
ScanPages(st, page_number, ps) ==
    IF ps = <<>> THEN st
    ELSE ScanPages(ScanPage(st, page_number, Head(ps)), page_number + 1, Tail(ps))

\* the first pass: the pictures and the break markers
BreakMarkers(ps) ==
    ScanPages([array_picture |-> <<>>, pic_number |-> 1, pos_y0_prev |-> 0,
               prev_was_a_pic |-> FALSE], 1, ps).array_picture

\* the body of the second pass for one entry of array_picture
GroupEntry(st, page_number, pic) ==
    IF pic[1] = page_number
    THEN IF pic[2] # -1
         THEN IF ~st.found_figure
              THEN [st EXCEPT !.pic_numbers = <<pic[2]>>, !.found_figure = TRUE]
              ELSE [st EXCEPT !.pic_numbers = @ \o <<pic[2]>>, !.found_figure = TRUE]
         ELSE IF st.found_figure
              THEN [array_figure |-> st.array_figure \o <<<<page_number, st.pic_numbers>>>>,
                    found_figure |-> FALSE,
                    pic_numbers  |-> <<>>]
              ELSE st
    ELSE st

RECURSIVE GroupPage(_, _, _)
GroupPage(st, page_number, pics) ==
    IF pics = <<>> THEN st
    ELSE GroupPage(GroupEntry(st, page_number, Head(pics)), page_number, Tail(pics))

\* the second pass: page.pageid is the position of the page in temp.pdf
RECURSIVE GroupPages(_, _, _, _)
GroupPages(figs, pageid, npages, pics) ==
    IF pageid > npages THEN figs
    ELSE GroupPages(GroupPage([array_figure |-> figs, found_figure |-> FALSE,
                               pic_numbers |-> <<>>], pageid, pics).array_figure,
                    pageid + 1, npages, pics)

generate_array_figures(ps) == GroupPages(<<>>, 1, Len(ps), BreakMarkers(ps))

InitFigures ==
    /\ pc = "figures"
    /\ pages \in PageSeqs(Elements, MaxPages, MaxObs)
    /\ array_picture = <<>>
    /\ array_figure = <<>>
    /\ IdleSplit /\ IdleReflow /\ IdleFront /\ IdlePages

FirstPass ==
    /\ pc = "figures"
    /\ array_picture' = BreakMarkers(pages)
    /\ pc' = "grouping"
    /\ UNCHANGED <<pageVars, pages, array_figure, splitVars, reflowVars, frontVars>>

SecondPass ==
    /\ pc = "grouping"
    /\ array_figure' = GroupPages(<<>>, 1, Len(pages), array_picture)
    /\ pc' = "figures_done"
    /\ UNCHANGED <<pageVars, pages, array_picture, splitVars, reflowVars, frontVars>>

NextFigures == FirstPass \/ SecondPass

SpecFigures == InitFigures /\ [][NextFigures]_vars

\* the number of LTFigure elements of the pages
RECURSIVE CountFigures(_)
CountFigures(ps) ==
    IF ps = <<>> THEN 0
    ELSE Cardinality({i \in 1..Len(Head(ps)) : Head(ps)[i].fig}) + CountFigures(Tail(ps))

\* how many times picture n is a member of an emitted figure
Memberships(n) ==
    Cardinality({<<f, k>> \in (1..Len(array_figure)) \X (1..MaxObs + 1) :
                    /\ k <= Len(array_figure[f][2])
                    /\ array_figure[f][2][k] = n})

\* C1 (as claimed): once the figures are built, every image fragment index is
\* a member of exactly one emitted figure.
C1_EveryImageInOneFigure ==
    pc = "figures_done" =>
        \A n \in 1..CountFigures(pages) : Memberships(n) = 1

\* the observations of the example: image(10, 20), image(20.5, 25), text,
\* image(5, 9), all on page 1
ExamplePages ==
    << <<Figure(HalfUnits(10), HalfUnits(20)), Figure(41, HalfUnits(25)),
         TextElement, Figure(HalfUnits(5), HalfUnits(9))>> >>

\* C3 (as claimed): the example observations give exactly two figures, the
\* first with the two images before the text, the second with the last image.
C3_ExampleTwoFigures ==
    (pc = "figures_done" /\ pages = ExamplePages) =>
        array_figure = << <<1, <<1, 2>> >>, <<1, <<3>> >> >>

-----------------------------------------------------------------------------
(* The blank-line collapse (temp2.txt to temp3.txt) and the paragraph       *)
(* reflow (temp3.txt to temp4.txt).  temp4 holds the paragraphs written,   *)
(* each followed by an empty line in the file; the directory holds no      *)
(* temp4.txt when the script starts.                                       *)

MaxLines == 3

L_empty    == <<>>
L_space    == <<" ">>
L_a        == <<"a">>
L_bhyphen  == <<"b", "-">>
L_hyphen   == <<"-">>
L_cd       == <<" ", "c", " ", "d", " ">>
L_inter    == <<"i", "n", "t", "e", "r", "-">>
L_national == <<"n", "a", "t", "i", "o", "n", "a", "l">>

LineSamples ==
    {L_empty, L_space, L_a, L_bhyphen, L_hyphen, L_cd, L_inter, L_national}

\* `not line.strip()`
IsBlank(line) == strip(line) = <<>>

\* one iteration of the collapse loop: the new prevlineblank and cleanedlines
CollapseStep(prev, cleaned, line) ==
    LET curlineblank == IsBlank(line)
    IN  IF curlineblank /\ prev
        THEN [prevlineblank |-> TRUE, cleanedlines |-> cleaned]
        ELSE [prevlineblank |-> curlineblank, cleanedlines |-> Append(cleaned, line)]

\* AppendLine without the de-hyphenation
AppendLineKeepHyphen(par, line) == par \o line \o <<" ">>

\* the non-blank branch of the reflow loop: the paragraph with the (stripped)
\* line added
AppendLine(par, line) ==
    IF line[Len(line)] = "-"
    THEN par \o SubSeq(line, 1, Len(line) - 1)
    ELSE par \o line \o <<" ">>

\* one iteration of the reflow loop: the new paragraph and temp4.txt
ReflowStep(par, out, rawline) ==
    LET line == strip(rawline)
    IN  IF line = <<>>
        THEN [paragraph |-> <<>>, temp4 |-> Append(out, strip(par))]
        ELSE [paragraph |-> AppendLine(par, line), temp4 |-> out]

\* what temp3.txt may hold when the editor returns: the file as it was, a
\* file typed anew, or the file with lines added at its end
RetypedSamples ==
    { <<>>,
      <<L_bhyphen, L_empty>>,
      <<L_inter, L_national, L_empty>>,
      <<L_a, L_empty, L_empty, L_cd>> }

AddedSamples == { <<L_empty, L_empty, L_empty, L_a, L_empty>> }

EditorSaves(file) ==
    {file} \cup RetypedSamples \cup {file \o added : added \in AddedSamples}

InitReflow ==
    /\ pc = "clean"
    /\ lines \in SeqsUpTo(LineSamples, MaxLines)
    /\ cleanpos = 0
    /\ prevlineblank = FALSE
    /\ cleanedlines = <<>>
    /\ temp3 = <<>>
    /\ reflowpos = 0
    /\ paragraph = <<>>
    /\ temp4 = <<>>
    /\ IdleFig /\ IdleSplit /\ IdleFront /\ IdlePages

CleanLine ==
    /\ pc = "clean"
    /\ cleanpos < Len(lines)
    /\ LET r == CollapseStep(prevlineblank, cleanedlines, lines[cleanpos + 1])
       IN  /\ prevlineblank' = r.prevlineblank
           /\ cleanedlines' = r.cleanedlines
    /\ cleanpos' = cleanpos + 1
    /\ UNCHANGED <<pageVars, pc, lines, temp3, reflowpos, paragraph, temp4,
                   figVars, splitVars, frontVars>>

\* cleanedlines is written to temp3.txt and the script waits at the prompt
CleanDone ==
    /\ pc = "clean"
    /\ cleanpos = Len(lines)
    /\ temp3' = cleanedlines
    /\ pc' = "input"
    /\ UNCHANGED <<pageVars, lines, cleanpos, prevlineblank, cleanedlines,
                   reflowpos, paragraph, temp4, figVars, splitVars, frontVars>>

\* any answer but 'y': temp3.txt is read back as it was written
AnswerOther ==
    /\ pc = "input"
    /\ pc' = "reflow"
    /\ UNCHANGED <<pageVars, reflowVars, figVars, splitVars, frontVars>>

\* the answer 'y' and xed returns: temp3.txt holds what the user left in it
AnswerYesEdit ==
    /\ pc = "input"
    /\ temp3' \in EditorSaves(temp3)
    /\ pc' = "reflow"
    /\ UNCHANGED <<pageVars, lines, cleanpos, prevlineblank, cleanedlines,
                   reflowpos, paragraph, temp4, figVars, splitVars, frontVars>>

\* the answer 'y' and no xed on the PATH: subprocess.call raises and the
\* script ends before the reflow loop
AnswerYesNoEditor ==
    /\ pc = "input"
    /\ pc' = "FileNotFoundError"
    /\ UNCHANGED <<pageVars, reflowVars, figVars, splitVars, frontVars>>

\* the standard input is at end of file: input() raises and the script ends
AnswerEOF ==
    /\ pc = "input"
    /\ pc' = "EOFError"
    /\ UNCHANGED <<pageVars, reflowVars, figVars, splitVars, frontVars>>

ReflowLine ==
    /\ pc = "reflow"
    /\ reflowpos < Len(temp3)
    /\ LET r == ReflowStep(paragraph, temp4, temp3[reflowpos + 1])
       IN  /\ paragraph' = r.paragraph
           /\ temp4' = r.temp4
    /\ reflowpos' = reflowpos + 1
    /\ UNCHANGED <<pageVars, pc, lines, cleanpos, prevlineblank, cleanedlines,
                   temp3, figVars, splitVars, frontVars>>

ReflowDone ==
    /\ pc = "reflow"
    /\ reflowpos = Len(temp3)
    /\ pc' = "reflow_done"
    /\ UNCHANGED <<pageVars, reflowVars, figVars, splitVars, frontVars>>

NextReflow ==
    \/ CleanLine
    \/ CleanDone
    \/ AnswerOther
    \/ AnswerYesEdit
    \/ AnswerYesNoEditor
    \/ AnswerEOF
    \/ ReflowLine
    \/ ReflowDone

SpecReflow == InitReflow /\ [][NextReflow]_vars

\* the lines of ls after its last blank line
RECURSIVE TrailingRun(_)
TrailingRun(ls) ==
    IF ls = <<>> \/ IsBlank(ls[Len(ls)]) THEN <<>>
    ELSE Append(TrailingRun(SubSeq(ls, 1, Len(ls) - 1)), ls[Len(ls)])

\* what a non-blank line contributes to its paragraph: the line without its
\* one trailing hyphen, or the line and one space
Piece(l) ==
    LET t == strip(l)
    IN  IF t[Len(t)] = "-" THEN SubSeq(t, 1, Len(t) - 1) ELSE t \o <<" ">>

RECURSIVE Joined(_)
Joined(ls) == IF ls = <<>> THEN <<>> ELSE Piece(Head(ls)) \o Joined(Tail(ls))

International ==
    <<"i", "n", "t", "e", "r", "n", "a", "t", "i", "o", "n", "a", "l">>

\* C2 (as claimed): when the line stream ends on a non-blank line, the text
\* accumulated since the last blank line is emitted as the final paragraph.
C2_FinalParagraphFlushed ==
    (pc = "reflow_done" /\ temp3 # <<>> /\ ~IsBlank(temp3[Len(temp3)])) =>
        /\ temp4 # <<>>
        /\ temp4[Len(temp4)] = strip(Joined(TrailingRun(temp3)))

\* single-line paragraphs separated by single blank lines: a paragraph at
\* every odd position, an empty line at every even one
IsReflowed(ls) ==
    \A i \in 1..Len(ls) :
        IF i % 2 = 1 THEN ls[i] # <<>> /\ strip(ls[i]) = ls[i] ELSE ls[i] = <<>>

OddLines(ls) == [i \in 1..((Len(ls) + 1) \div 2) |-> ls[2 * i - 1]]

\* C5 (as claimed): reflowing a sequence of single-line paragraphs separated
\* by single blank lines gives back the same paragraphs in the same order.
C5_ReflowIdempotent ==
    (pc = "reflow_done" /\ IsReflowed(temp3)) => temp4 = OddLines(temp3)

\* C6: while the reflow loop runs, the accumulator is the concatenation, over
\* the non-blank lines since the last blank line, of the line without its one
\* trailing hyphen and with no separator, or of the line and exactly one
\* space; "inter-", "national" and a blank line give the one paragraph
\* "international".
C6_HyphenJoin ==
    /\ pc \in {"reflow", "reflow_done"} =>
           paragraph = Joined(TrailingRun(SubSeq(temp3, 1, reflowpos)))
    /\ (pc = "reflow_done" /\ temp3 = <<L_inter, L_national, L_empty>>) =>
           temp4 = <<International>>

C6_Witness ==
    /\ pc = "reflow_done"
    /\ lines = <<L_inter, L_national, L_empty>>
    /\ temp3 = lines
    /\ temp4 = <<International>>

\* C7 (as claimed): the cleaned stream holds no two consecutive blank lines,
\* and when the reflow reads the cleaned stream as the collapse wrote it no
\* emitted paragraph is blank.
C7_NoBlankParagraph ==
    /\ \A i \in 1..Len(cleanedlines) - 1 :
           ~(IsBlank(cleanedlines[i]) /\ IsBlank(cleanedlines[i + 1]))
    /\ (pc \in {"reflow", "reflow_done"} /\ temp3 = cleanedlines) =>
           \A i \in 1..Len(temp4) : temp4[i] # <<>>

-----------------------------------------------------------------------------
(* The column split loop.  A page of bodytextpages is the sequence of the  *)
(* lines page.splitlines() gives; newbody is the sequence of the lines     *)
(* written to temp2.txt.                                                   *)

MaxBodyLines == 3

\* a line that begins with at least this many spaces is a right line
RightIndent == 45

S_blank  == <<>>
S_left   == <<"a", " ", "b">>
S_both   == <<"a">> \o Sp3 \o <<"b">>
S_right  == Spaces(RightIndent) \o <<"r">>
S_near   == Spaces(RightIndent - 1) \o <<"n">>
S_three  == <<" ", "a">> \o Sp3 \o <<"b">> \o Sp4 \o <<"c">>
S_trail  == <<"a">> \o Sp3 \o <<"b">> \o Sp3 \o <<"c">> \o Sp4

SplitSamples == {S_blank, S_left, S_both, S_right, S_near, S_three, S_trail}

\* the number of leading spaces of a line
LeadingSpaces(line) == Len(line) - Len(lstrip(line))

\* the body of the inner loop up to the two assignments: <<leftline, rightline>>
SplitLine(line) ==
    IF LeadingSpaces(line) >= RightIndent
    THEN <<<<>>, strip(line)>>
    ELSE IF find(strip(line), Sp3) = -1
    THEN <<strip(line), <<>>>>
    ELSE IF count(strip(line), Sp3) > 1
    THEN split1(lstrip(sanitize_spaces(line)), Sp3)
    ELSE split1(lstrip(line), Sp3)

\* `newbody += leftcolumn` without `newbody += rightcolumn`
EmitPageLeftOnly(body, left, right) == body \o left

\* the two columns appended in the wrong order
EmitPageRightFirst(body, left, right) == body \o right \o left

\* `newbody += leftcolumn; newbody += rightcolumn`
EmitPage(body, left, right) == body \o left \o right

InitSplit ==
    /\ pc = "split"
    /\ bodytextpages \in PageSeqs(SplitSamples, MaxPages, MaxBodyLines)
    /\ cptr = 0
    /\ lineno = 0
    /\ leftcolumn = <<>>
    /\ rightcolumn = <<>>
    /\ newbody = <<>>
    /\ IdleFig /\ IdleReflow /\ IdleFront /\ IdlePages

\* `for page in bodytextpages:` enters the next page
EnterPage ==
    /\ pc = "split"
    /\ cptr < Len(bodytextpages)
    /\ cptr' = cptr + 1
    /\ lineno' = 0
    /\ leftcolumn' = <<>>
    /\ rightcolumn' = <<>>
    /\ pc' = "split_page"
    /\ UNCHANGED <<pageVars, bodytextpages, newbody, figVars, reflowVars, frontVars>>

\* one iteration of `for line in page.splitlines():`
SplitNextLine ==
    /\ pc = "split_page"
    /\ lineno < Len(bodytextpages[cptr])
    /\ LET lr == SplitLine(bodytextpages[cptr][lineno + 1])
       IN  /\ leftcolumn' = Append(leftcolumn, lr[1])
           /\ rightcolumn' = Append(rightcolumn, strip(lr[2]))
    /\ lineno' = lineno + 1
    /\ UNCHANGED <<pageVars, pc, bodytextpages, cptr, newbody, figVars, reflowVars, frontVars>>

\* the page's lines are exhausted: the columns are appended to newbody
LeavePage ==
    /\ pc = "split_page"
    /\ lineno = Len(bodytextpages[cptr])
    /\ newbody' = EmitPage(newbody, leftcolumn, rightcolumn)
    /\ pc' = "split"
    /\ UNCHANGED <<pageVars, bodytextpages, cptr, lineno, leftcolumn, rightcolumn,
                   figVars, reflowVars, frontVars>>

\* newbody is written to temp2.txt
SplitDone ==
    /\ pc = "split"
    /\ cptr = Len(bodytextpages)
    /\ pc' = "split_done"
    /\ UNCHANGED <<pageVars, splitVars, figVars, reflowVars, frontVars>>

NextSplit == EnterPage \/ SplitNextLine \/ LeavePage \/ SplitDone

SpecSplit == InitSplit /\ [][NextSplit]_vars

\* the number of non-empty lines of a sequence of lines, trailing whitespace
\* ignored
NonEmpty(ls) == Cardinality({i \in 1..Len(ls) : rstrip(ls[i]) # <<>>})

RECURSIVE NonEmptyInput(_)
NonEmptyInput(ps) ==
    IF ps = <<>> THEN 0 ELSE NonEmpty(Head(ps)) + NonEmptyInput(Tail(ps))

\* the number of lines of newbody that come from the pages before page p
RECURSIVE Offset(_)
Offset(p) == IF p <= 1 THEN 0 ELSE Offset(p - 1) + 2 * Len(bodytextpages[p - 1])

\* C4 (as claimed): the output holds exactly as many non-empty lines as the
\* input pages do.
C4_SameNonEmptyCount ==
    pc = "split_done" => NonEmpty(newbody) = NonEmptyInput(bodytextpages)

\* C4 (amended): every input line yields exactly one line of its page's left
\* column and one of its right column; a blank input line yields two empty
\* lines and a non-blank one at least one non-empty line, so no line is
\* dropped and the output holds between once and twice as many non-empty
\* lines as the input.
C4_NoLineDropped ==
    pc = "split_done" =>
        /\ Len(newbody) = Offset(Len(bodytextpages) + 1)
        /\ \A p \in 1..Len(bodytextpages) : \A i \in 1..Len(bodytextpages[p]) :
               LET l == newbody[Offset(p) + i]
                   r == newbody[Offset(p) + Len(bodytextpages[p]) + i]
               IN  IF IsBlank(bodytextpages[p][i])
                   THEN l = <<>> /\ r = <<>>
                   ELSE l # <<>> \/ r # <<>>
        /\ NonEmptyInput(bodytextpages) <= NonEmpty(newbody)
        /\ NonEmpty(newbody) <= 2 * NonEmptyInput(bodytextpages)

\* a line with text in both columns has been split into two output lines
C4_Witness ==
    /\ pc = "split_done"
    /\ NonEmpty(newbody) > NonEmptyInput(bodytextpages)
    /\ \E p \in 1..Len(bodytextpages) : \E i \in 1..Len(bodytextpages[p]) :
           bodytextpages[p][i] = S_both

\* C10: page by page and in page order, the output holds the left parts of
\* the page's lines in their order, immediately followed by the right parts
\* of the page's lines in their order, and nothing else.
C10_LeftThenRightPerPage ==
    pc = "split_done" =>
        /\ Len(newbody) = Offset(Len(bodytextpages) + 1)
        /\ \A p \in 1..Len(bodytextpages) : \A i \in 1..Len(bodytextpages[p]) :
               /\ newbody[Offset(p) + i] = SplitLine(bodytextpages[p][i])[1]
               /\ newbody[Offset(p) + Len(bodytextpages[p]) + i]
                      = strip(SplitLine(bodytextpages[p][i])[2])

\* two pages, the first with two lines of which one has text in both columns
C10_Witness ==
    /\ pc = "split_done"
    /\ Len(bodytextpages) = 2
    /\ Len(bodytextpages[1]) = 2
    /\ Len(bodytextpages[2]) = 1
    /\ bodytextpages[1][1] = S_three
    /\ bodytextpages[1][2] = S_right
    /\ bodytextpages[2][1] = S_both
    /\ newbody = << <<"a", " ", "b">>, <<>>, <<"c">>, <<"r">>, <<"a">>, <<"b">> >>

-----------------------------------------------------------------------------
(* The front matter.  A fragment of article_content is                     *)
(* [page_number, text container number, layout, font name, font size,      *)
(* text]; the fields are named here.  An element of page1 is a text        *)
(* container with its lines, or something else; the font size of a line    *)
(* is the size of its first character, in tenths of a point.               *)

MaxFrags == 3

\* Python's None: no text, since a text holds single characters
None == <<"<None>">>

T_author == <<" ", "M", "a", "x", " ", "M", "u", "s", "t", "e", "r", "m", "a", "n", "n", " ">>
MaxMustermann == <<"M", "a", "x", " ", "M", "u", "s", "t", "e", "r", "m", "a", "n", "n">>
T_category == <<"M", "o", "d", "e", "l", "l", " ">>
T_other == <<"x">>

ArialMT  == <<"A", "r", "i", "a", "l", "M", "T">>
FontPlain == <<"Q", "+">> \o ArialMT
FontBold  == <<"Q", "+", "A", "r", "i", "a", "l", "-", "B", "o", "l", "d", "M", "T">>

Fragment(p, c, l, f, z, t) ==
    [page |-> p, container |-> c, layout |-> l, fontname |-> f, size |-> z, text |-> t]

FragmentSamples ==
    { Fragment(1, 4, "rc", FontBold, 12, T_author),      \* the author, where expected
      Fragment(1, 6, "rc", FontBold, 12, T_author),      \* the author, two containers later
      Fragment(1, 2, "fp", FontPlain, 12, T_category),   \* the category
      Fragment(1, 0, "fp", FontPlain, 10, T_other),      \* a header line
      Fragment(1, 4, "lc", FontBold, 12, T_other),       \* container 4, left column
      Fragment(1, 5, "lc", FontBold, 10, T_other),       \* a later container
      Fragment(2, 4, "rc", FontPlain, 12, T_other) }     \* page 2

\* str.endswith
endswith(s, suffix) ==
    /\ Len(s) >= Len(suffix)
    /\ SubSeq(s, Len(s) - Len(suffix) + 1, Len(s)) = suffix

\* the fragment is the author line
IsAuthor(line) ==
    line.page = 1 /\ line.container = 4 /\ line.layout = "rc" /\ line.size = 12

\* get_author_from_article with the early exit forgotten
RECURSIVE AuthorNoEarlyExit(_)
AuthorNoEarlyExit(content) ==
    IF content = <<>> THEN None
    ELSE IF IsAuthor(Head(content)) THEN strip(Head(content).text)
    ELSE AuthorNoEarlyExit(Tail(content))

RECURSIVE get_author_from_article(_)
get_author_from_article(content) ==
    IF content = <<>> THEN None
    ELSE LET line == Head(content)
         IN  IF IsAuthor(line) THEN strip(line.text)
             ELSE IF line.container > 4 THEN <<>>
             ELSE get_author_from_article(Tail(content))

RECURSIVE get_category_from_article(_)
get_category_from_article(content) ==
    IF content = <<>> THEN None
    ELSE LET line == Head(content)
         IN  IF /\ line.page = 1 /\ line.container >= 2
                /\ endswith(line.fontname, ArialMT) /\ line.size = 12
             THEN strip(line.text)
             ELSE IF line.page > 1 THEN <<>>
             ELSE get_category_from_article(Tail(content))

\* Python's round of a size given in tenths: to the nearest integer, a half
\* to the even one
Round(tenths) ==
    LET q == tenths \div 10
        r == tenths % 10
    IN  IF r < 5 THEN q
        ELSE IF r > 5 THEN q + 1
        ELSE IF q % 2 = 0 THEN q ELSE q + 1

TextContainer(ls) == [text |-> TRUE, lines |-> ls]
OtherElement      == [text |-> FALSE, lines |-> <<>>]
TextLine(z, t)    == [size |-> z, text |-> t]

\* the inner loop of get_title_from_pdf over the lines of one container: the
\* title after it
RECURSIVE TitleInContainer(_, _, _)
TitleInContainer(ttl, element_index, ls) ==
    IF ls = <<>> THEN ttl
    ELSE IF Round(Head(ls).size) = 20 /\ element_index > 1
    THEN ttl \o strip(Head(ls).text) \o <<" ">>
    ELSE TitleInContainer(ttl, element_index, Tail(ls))

\* the outer loop of get_title_from_pdf over the elements of the first page
RECURSIVE TitleInPage(_, _, _)
TitleInPage(ttl, element_index, elems) ==
    IF elems = <<>> THEN ttl
    ELSE LET t == IF Head(elems).text
                  THEN TitleInContainer(ttl, element_index, Head(elems).lines)
                  ELSE ttl
         IN  IF t # <<>> THEN t
             ELSE TitleInPage(t, element_index + 1, Tail(elems))

get_title_from_pdf(p1) == strip(TitleInPage(<<>>, 0, p1))

T_titel == <<"T", "i", "t", "e", "l">>
T_zwei  == <<"z", "w", "e", "i">>

Page1Samples ==
    { <<>>,
      << TextContainer(<<TextLine(120, T_other)>>) >>,
      << OtherElement,
         TextContainer(<<TextLine(200, T_other)>>),
         TextContainer(<<TextLine(120, T_category)>>),
         TextContainer(<<TextLine(196, T_titel), TextLine(200, T_zwei)>>),
         TextContainer(<<TextLine(120, T_author)>>) >> }

\* get_author_from_article alone, on any fragment list
InitAuthor ==
    /\ pc = "author"
    /\ article_content \in SeqsUpTo(FragmentSamples, MaxFrags)
    /\ page1 = <<>>
    /\ category = <<>>
    /\ title = <<>>
    /\ author = <<>>
    /\ IdleFig /\ IdleSplit /\ IdleReflow /\ IdlePages

CallGetAuthor ==
    /\ pc = "author"
    /\ author' = get_author_from_article(article_content)
    /\ pc' = "author_done"
    /\ UNCHANGED <<pageVars, article_content, page1, category, title, figVars, splitVars, reflowVars>>

NextAuthor == CallGetAuthor

SpecAuthor == InitAuthor /\ [][NextAuthor]_vars

\* the script from `category = ''` to `print('AUTHOR: ' + author)`
InitFront ==
    /\ pc = "front"
    /\ article_content \in SeqsUpTo(FragmentSamples, MaxFrags)
    /\ page1 \in Page1Samples
    /\ category = <<>>
    /\ title = <<>>
    /\ author = <<>>
    /\ IdleFig /\ IdleSplit /\ IdleReflow /\ IdlePages

\* 'CATEGORY: ' + category and the like: concatenating None to a str raises
\* TypeError, which nothing catches
AfterPrint(value, next) == IF value = None THEN "TypeError" ELSE next

GetCategory ==
    /\ pc = "front"
    /\ category' = get_category_from_article(article_content)
    /\ pc' = "category"
    /\ UNCHANGED <<pageVars, article_content, page1, title, author, figVars, splitVars, reflowVars>>

PrintCategory ==
    /\ pc = "category"
    /\ pc' = AfterPrint(category, "category_printed")
    /\ UNCHANGED <<pageVars, frontVars, figVars, splitVars, reflowVars>>

GetTitle ==
    /\ pc = "category_printed"
    /\ title' = get_title_from_pdf(page1)
    /\ pc' = "title"
    /\ UNCHANGED <<pageVars, article_content, page1, category, author, figVars, splitVars, reflowVars>>

PrintTitle ==
    /\ pc = "title"
    /\ pc' = AfterPrint(title, "title_printed")
    /\ UNCHANGED <<pageVars, frontVars, figVars, splitVars, reflowVars>>

GetAuthor ==
    /\ pc = "title_printed"
    /\ author' = get_author_from_article(article_content)
    /\ pc' = "author_got"
    /\ UNCHANGED <<pageVars, article_content, page1, category, title, figVars, splitVars, reflowVars>>

PrintAuthor ==
    /\ pc = "author_got"
    /\ pc' = AfterPrint(author, "author_printed")
    /\ UNCHANGED <<pageVars, frontVars, figVars, splitVars, reflowVars>>

NextFront ==
    GetCategory \/ PrintCategory \/ GetTitle \/ PrintTitle \/ GetAuthor \/ PrintAuthor

SpecFront == InitFront /\ [][NextFront]_vars

\* the position of the first author fragment of content, 0 if none
FirstAuthor(content) ==
    IF \E i \in 1..Len(content) : IsAuthor(content[i])
    THEN CHOOSE i \in 1..Len(content) :
             /\ IsAuthor(content[i])
             /\ \A j \in 1..(i - 1) : ~IsAuthor(content[j])
    ELSE 0

\* the position of the first fragment with a container index above 4, 0 if none
FirstLater(content) ==
    IF \E i \in 1..Len(content) : content[i].container > 4
    THEN CHOOSE i \in 1..Len(content) :
             /\ content[i].container > 4
             /\ \A j \in 1..(i - 1) : content[j].container <= 4
    ELSE 0

\* C8: get_author_from_article returns the trimmed text of the first fragment
\* on page 1 with container index 4, right column and size 12 when no
\* fragment with a container index above 4 precedes it, and the empty string
\* when a fragment with a container index above 4 comes first; the fragment
\* "Max Mustermann" gives that string at container 4 and "" at container 6.
C8_AuthorOrEarlyExit ==
    pc = "author_done" =>
        LET m == FirstAuthor(article_content)
            e == FirstLater(article_content)
        IN  /\ (m # 0 /\ (e = 0 \/ m < e)) => author = strip(article_content[m].text)
            /\ (e # 0 /\ (m = 0 \/ e < m)) => author = <<>>
            /\ article_content = <<Fragment(1, 4, "rc", FontBold, 12, T_author)>>
                   => author = MaxMustermann
            /\ article_content = <<Fragment(1, 6, "rc", FontBold, 12, T_author)>>
                   => author = <<>>

\* the author fragment is not the first fragment, a fragment of a later
\* container follows it, and its trimmed text is returned
C8_Witness ==
    /\ pc = "author_done"
    /\ FirstAuthor(article_content) > 1
    /\ FirstLater(article_content) > FirstAuthor(article_content)
    /\ author = MaxMustermann

\* C9 (as claimed): a missing author or category is an empty string, and the
\* run from the extraction of the category to the print of the author raises
\* no error.
C9_MissingIsEmptyString ==
    /\ pc # "TypeError"
    /\ category # None
    /\ author # None

-----------------------------------------------------------------------------
(* get_title_from_pdf alone, on any first page.                            *)

MaxTitleElems == 4

TitleElementSamples ==
    { OtherElement,
      TextContainer(<<TextLine(120, T_other)>>),
      TextContainer(<<TextLine(196, T_titel), TextLine(200, T_zwei)>>),
      TextContainer(<<TextLine(200, T_titel), TextLine(120, T_other),
                      TextLine(200, T_zwei)>>),
      TextContainer(<<TextLine(120, T_other), TextLine(200, T_zwei)>>) }

InitTitle ==
    /\ pc = "title_call"
    /\ page1 \in SeqsUpTo(TitleElementSamples, MaxTitleElems)
    /\ article_content = <<>>
    /\ category = <<>>
    /\ title = <<>>
    /\ author = <<>>
    /\ IdleFig /\ IdleSplit /\ IdleReflow /\ IdlePages

CallGetTitle ==
    /\ pc = "title_call"
    /\ title' = get_title_from_pdf(page1)
    /\ pc' = "title_done"
    /\ UNCHANGED <<pageVars, article_content, page1, category, author, figVars, splitVars, reflowVars>>

NextTitle == CallGetTitle

SpecTitle == InitTitle /\ [][NextTitle]_vars

\* the line has rounded font size 20
IsTitleLine(l) == Round(l.size) = 20

\* the position of the first element of p1 that is a text container with an
\* index above 1 (the first element has index 0) and a title line, 0 if none
TitleElement(p1) ==
    LET Has(i) == /\ p1[i].text /\ i - 1 > 1
                  /\ \E k \in 1..Len(p1[i].lines) : IsTitleLine(p1[i].lines[k])
    IN  IF \E i \in 1..Len(p1) : Has(i)
        THEN CHOOSE i \in 1..Len(p1) : Has(i) /\ \A j \in 1..(i - 1) : ~Has(j)
        ELSE 0

\* the texts of the lines of ls from position k on, as long as they are
\* title lines, each trimmed and followed by one space
RECURSIVE TitleRun(_, _)
TitleRun(ls, k) ==
    IF k > Len(ls) \/ ~IsTitleLine(ls[k]) THEN <<>>
    ELSE strip(ls[k].text) \o <<" ">> \o TitleRun(ls, k + 1)

\* the whole first run of consecutive title lines, joined and trimmed
WholeTitle(p1) ==
    LET e == TitleElement(p1)
    IN  IF e = 0 THEN <<>>
        ELSE LET ls == p1[e].lines
                 k  == CHOOSE k \in 1..Len(ls) :
                           IsTitleLine(ls[k]) /\ \A j \in 1..(k - 1) : ~IsTitleLine(ls[j])
             IN  strip(TitleRun(ls, k))

\* C11 (as claimed): get_title_from_pdf returns the whole first run of
\* consecutive lines of rounded font size 20 in a container with an index
\* above 1, joined by single spaces and trimmed.
C11_WholeTitleRun ==
    pc = "title_done" => title = WholeTitle(page1)

-----------------------------------------------------------------------------
(* The partition of the body lines into pages (the bodytextpages loop).    *)
(* A page is the sequence of the lines added to bodytextpages[i].          *)

MaxTextLines == 3

Digits == <<"0", "1", "2", "3", "4", "5", "6", "7", "8", "9">>

\* str.isdigit
isdigit(s) == s # <<>> /\ \A i \in 1..Len(s) : \E d \in 1..Len(Digits) : Digits[d] = s[i]

\* str.startswith
startswith(s, prefix) == MatchAt(s, prefix, 1)

FtPedia == <<"f", "t", ":", "p", "e", "d", "i", "a">>
Heft    == <<"H", "e", "f", "t">>
Modell  == <<"M", "o", "d", "e", "l", "l">>

B_text   == <<"a">>
B_blank  == <<>>
B_inside == <<" ", "1", "2">>
B_beyond == <<"7">>
B_header == FtPedia \o <<" ">> \o Modell
B_footer == Heft \o <<" ", "1", " ">> \o FtPedia

BodyLineSamples == {B_text, B_blank, B_inside, B_beyond, B_header, B_footer}

\* <<first_page, last_page>> of the command line
PageRanges == {<<12, 12>>, <<12, 13>>}

\* the line is the running header or the running footer
IsHeaderOrFooter(line, cat) ==
    \/ startswith(strip(line), FtPedia) /\ endswith(strip(line), cat)
    \/ startswith(strip(line), Heft) /\ endswith(strip(line), FtPedia)

\* the inner loop `for line in bodytext[cptr:]`: the page captured and the
\* new cptr, from the page so far and the lines read so far
RECURSIVE CapturePage(_, _, _, _)
CapturePage(text, page, n, cat) ==
    IF n >= Len(text) THEN [page |-> page, cptr |-> n]
    ELSE LET line == text[n + 1]
         IN  IF isdigit(strip(line)) THEN [page |-> page, cptr |-> n + 1]
             ELSE IF IsHeaderOrFooter(line, cat) THEN CapturePage(text, page, n + 1, cat)
             ELSE CapturePage(text, Append(page, line), n + 1, cat)

InitPages ==
    /\ pc = "pages"
    /\ bodytext \in SeqsUpTo(BodyLineSamples, MaxTextLines)
    /\ \E r \in PageRanges : first_page = r[1] /\ last_page = r[2]
    /\ category \in {Modell, <<>>}
    /\ bodytextpages = <<>>
    /\ cptr = 0
    /\ lineno = 0 /\ leftcolumn = <<>> /\ rightcolumn = <<>> /\ newbody = <<>>
    /\ article_content = <<>> /\ page1 = <<>> /\ title = <<>> /\ author = <<>>
    /\ IdleFig /\ IdleReflow

\* one iteration of `for i in range(nbpages)`
CaptureNextPage ==
    /\ pc = "pages"
    /\ Len(bodytextpages) < last_page - first_page + 1
    /\ LET r == CapturePage(bodytext, <<>>, cptr, category)
       IN  /\ bodytextpages' = Append(bodytextpages, r.page)
           /\ cptr' = r.cptr
    /\ UNCHANGED <<pc, pageVars, lineno, leftcolumn, rightcolumn, newbody,
                   frontVars, figVars, reflowVars>>

PagesDone ==
    /\ pc = "pages"
    /\ Len(bodytextpages) = last_page - first_page + 1
    /\ pc' = "pages_done"
    /\ UNCHANGED <<pageVars, splitVars, frontVars, figVars, reflowVars>>

NextPages == CaptureNextPage \/ PagesDone

SpecPages == InitPages /\ [][NextPages]_vars

\* the number a string of digits writes
RECURSIVE ToInt(_)
ToInt(s) ==
    IF s = <<>> THEN 0
    ELSE 10 * ToInt(SubSeq(s, 1, Len(s) - 1))
         + (CHOOSE d \in 0..9 : Digits[d + 1] = s[Len(s)])

\* a standalone page-number token with a value from first to last
IsPageNumber(line, first, last) ==
    /\ isdigit(strip(line))
    /\ first <= ToInt(strip(line))
    /\ ToInt(strip(line)) <= last

\* the pages as the claim describes them: only a page-number token within
\* the range ends a page and is dropped, headers and footers are dropped,
\* every other line is kept
RECURSIVE ClaimedPage(_, _, _, _, _, _)
ClaimedPage(text, page, n, cat, first, last) ==
    IF n >= Len(text) THEN [page |-> page, cptr |-> n]
    ELSE LET line == text[n + 1]
         IN  IF IsPageNumber(line, first, last) THEN [page |-> page, cptr |-> n + 1]
             ELSE IF IsHeaderOrFooter(line, cat)
             THEN ClaimedPage(text, page, n + 1, cat, first, last)
             ELSE ClaimedPage(text, Append(page, line), n + 1, cat, first, last)

RECURSIVE ClaimedPages(_, _, _, _, _, _)
ClaimedPages(text, n, k, cat, first, last) ==
    IF k = 0 THEN <<>>
    ELSE LET r == ClaimedPage(text, <<>>, n, cat, first, last)
         IN  <<r.page>> \o ClaimedPages(text, r.cptr, k - 1, cat, first, last)

\* C12 (as claimed): a line ends the capture of the current page and is
\* dropped only when it is a page-number token with a value from firstPage
\* to lastPage; every other line that is no running header or footer, a
\* digits-only line with a value outside that range and a blank line
\* included, is in the page body unchanged.
C12_OnlyRangedNumberEndsPage ==
    pc = "pages_done" =>
        bodytextpages = ClaimedPages(bodytext, 0, last_page - first_page + 1,
                                     category, first_page, last_page)

-----------------------------------------------------------------------------
(* The split of a line at its last wide gap.                               *)

\* the number of consecutive spaces of s from position i on
RECURSIVE RunLen(_, _)
RunLen(s, i) == IF i <= Len(s) /\ s[i] = " " THEN 1 + RunLen(s, i + 1) ELSE 0

\* s from position i on, with every run of 3 or more spaces made one space
RECURSIVE CollapseWideFrom(_, _)
CollapseWideFrom(s, i) ==
    IF i > Len(s) THEN <<>>
    ELSE LET r == RunLen(s, i)
         IN  IF r >= 3 THEN <<" ">> \o CollapseWideFrom(s, i + r)
             ELSE IF r > 0 THEN SubSeq(s, i, i + r - 1) \o CollapseWideFrom(s, i + r)
             ELSE <<s[i]>> \o CollapseWideFrom(s, i + 1)

\* a run of 3 or more spaces of c begins at position k
GapStartsAt(c, k) == RunLen(c, k) >= 3 /\ (k = 1 \/ c[k - 1] # " ")

\* where the last run of 3 or more spaces of c begins
LastGap(c) ==
    CHOOSE k \in 1..Len(c) :
        GapStartsAt(c, k) /\ \A j \in (k + 1)..Len(c) : ~GapStartsAt(c, j)

\* the text before the last wide gap, every earlier wide gap made one space
ClaimedLeft(c) == CollapseWideFrom(SubSeq(c, 1, LastGap(c) - 1), 1)

\* the text after the last wide gap
ClaimedRight(c) == SubSeq(c, LastGap(c) + RunLen(c, LastGap(c)), Len(c))

\* the line has fewer than 45 leading spaces and a wide gap in its content
HasWideGap(line) ==
    LeadingSpaces(line) < RightIndent /\ find(strip(line), Sp3) # -1

\* what C13 says of one input line and the two output lines it has given
SplitAsClaimed(line, l, r) ==
    LET c == strip(line)
        z == sanitize_spaces(line)
    IN  /\ count(z, Sp3) = 1
        /\ find(z, Sp4) = -1
        /\ strip(z) = ClaimedLeft(c) \o Sp3 \o ClaimedRight(c)
        /\ l = ClaimedLeft(c)
        /\ r = ClaimedRight(c)
        /\ r # <<>>

\* C13 (as claimed): for every line with fewer than 45 leading spaces whose
\* content holds a run of 3 or more spaces, sanitize_spaces leaves exactly
\* one run of exactly 3 spaces, at the last wide gap, LEFT is the text before
\* the last wide gap with every earlier wide gap made one space, and RIGHT
\* is the non-empty text after the last wide gap.
C13_SplitAtLastWideGap ==
    pc = "split_done" =>
        \A p \in 1..Len(bodytextpages) : \A i \in 1..Len(bodytextpages[p]) :
            HasWideGap(bodytextpages[p][i]) =>
                SplitAsClaimed(bodytextpages[p][i],
                               newbody[Offset(p) + i],
                               newbody[Offset(p) + Len(bodytextpages[p]) + i])

\* The same, for the lines that do not end in a run of 3 or more spaces:
\* this holds of the column split loop.
C13_HoldsWithoutTrailingGap ==
    pc = "split_done" =>
        \A p \in 1..Len(bodytextpages) : \A i \in 1..Len(bodytextpages[p]) :
            LET line == bodytextpages[p][i]
            IN  (HasWideGap(line) /\ Len(line) - Len(rstrip(line)) < 3) =>
                    SplitAsClaimed(line,
                                   newbody[Offset(p) + i],
                                   newbody[Offset(p) + Len(bodytextpages[p]) + i])

====
